---- MODULE Spec2Model ----
(***************************************************************************)
(* Model of the rule engine of LabReport.py: the operator registry OPS,    *)
(* evaluate_condition, rule_matches and run_rules, and the default rule    *)
(* catalog DEFAULT_RULES.                                                  *)
(*                                                                         *)
(* Python values are tagged records: Num(n) an int (or a float, scaled to  *)
(* an integer), Str(s) a str, List(l) a list, Null the value None.  A dict *)
(* is a function whose domain is its set of keys, so that dict.get and the *)
(* "in" test of a dict are domain tests.  A call either returns a value or *)
(* raises: Ret(v) and Raise.                                               *)
(***************************************************************************)
EXTENDS Integers, Sequences, FiniteSets, TLC

\* facts, rules: the arguments of run_rules
\* pc:           "start", "fired" (after line 106), "done"
\* fired:        the list fired of line 106, as positions in rules
\* ret:          what the call gave: raised, or best and fired_sorted
VARIABLES facts, rules, pc, fired, ret

vars == <<facts, rules, pc, fired, ret>>

--------------------------------------------------------------------------
(* Python values and the outcome of a call *)

Num(n) == [t |-> "num", n |-> n]
Str(s) == [t |-> "str", s |-> s]
List(l) == [t |-> "list", l |-> l]
Null == [t |-> "null"]

Ret(v) == [exc |-> FALSE, val |-> v]
Raise == [exc |-> TRUE, val |-> FALSE]

\* dict.get(key, default)
Get(d, key, default) == IF key \in DOMAIN d THEN d[key] ELSE default

\* hash(v) succeeds: a list is unhashable
Hashable(v) == v.t # "list"

\* The code points of the strings the model compares.
Ord(s) ==
    CASE s = "a" -> <<97>>
      [] s = "ab" -> <<97, 98>>
      [] s = "b" -> <<98>>
      [] OTHER -> <<>>

IntCmp(op, m, n) ==
    CASE op = "<" -> m < n
      [] op = "<=" -> m <= n
      [] op = ">" -> m > n
      [] op = ">=" -> m >= n

\* a == b of Python on the modelled values (never raises)
PyEq(a, b) == a = b

\* The first index at which two sequences differ, 0 when one is a prefix
\* of the other.
FirstDiff(u, v) ==
    LET m == IF Len(u) < Len(v) THEN Len(u) ELSE Len(v)
        D == {i \in 1..m : u[i] # v[i]}
    IN IF D = {} THEN 0 ELSE CHOOSE i \in D : \A j \in D : i <= j

\* a < b, a <= b, a > b, a >= b of Python: numbers by value, strings and
\* lists lexicographically, anything else is a TypeError.
RECURSIVE PyOrd(_, _, _)
PyOrd(op, a, b) ==
    IF a.t = "num" /\ b.t = "num" THEN Ret(IntCmp(op, a.n, b.n))
    ELSE IF a.t = "str" /\ b.t = "str" THEN
        LET u == Ord(a.s)
            v == Ord(b.s)
            i == FirstDiff(u, v)
        IN IF i = 0 THEN Ret(IntCmp(op, Len(u), Len(v)))
           ELSE Ret(IntCmp(op, u[i], v[i]))
    ELSE IF a.t = "list" /\ b.t = "list" THEN
        LET i == FirstDiff(a.l, b.l)
        IN IF i = 0 THEN Ret(IntCmp(op, Len(a.l), Len(b.l)))
           ELSE PyOrd(op, a.l[i], b.l[i])
    ELSE Raise

\* u occurs in v as a contiguous subsequence
IsSubstring(u, v) ==
    \E k \in 0..(Len(v) - Len(u)) : \A i \in 1..Len(u) : v[k + i] = u[i]

\* a in b of Python: membership in a list, substring of a str, TypeError on
\* a value that is no container (or a non-str on the left of a str).
PyIn(a, b) ==
    IF b.t = "list" THEN Ret(\E i \in 1..Len(b.l) : PyEq(b.l[i], a))
    ELSE IF b.t = "str" /\ a.t = "str" THEN Ret(IsSubstring(Ord(a.s), Ord(b.s)))
    ELSE Raise

--------------------------------------------------------------------------
(* OPS *)

OpSymbols == {"==", "!=", ">", ">=", "<", "<=", "in", "not_in"}

\* OPS[op](a, b)
OPS(op, a, b) ==
    CASE op = "==" -> Ret(PyEq(a, b))
      [] op = "!=" -> Ret(~PyEq(a, b))
      [] op \in {">", ">=", "<", "<="} -> PyOrd(op, a, b)
      [] op = "in" -> PyIn(a, b)
      [] op = "not_in" ->
            LET r == PyIn(a, b) IN IF r.exc THEN Raise ELSE Ret(~r.val)

--------------------------------------------------------------------------
(* evaluate_condition, rule_matches *)

\* field in facts, for a hashable field: the keys of facts are strings
InFacts(f, field) == field.t = "str" /\ field.s \in DOMAIN f

\* op in OPS, for a hashable op
InOPS(op) == op.t = "str" /\ op.s \in OpSymbols

\* Variant: the operands handed to the operator in the other order
evaluate_condition_Swapped(f, cond) ==
    IF cond.t # "list" THEN Raise
    ELSE IF Len(cond.l) # 3 THEN Ret(FALSE)
    ELSE LET field == cond.l[1]
             op == cond.l[2]
             value == cond.l[3]
         IN IF ~Hashable(field) THEN Raise
            ELSE IF ~InFacts(f, field) THEN Ret(FALSE)
            ELSE IF ~Hashable(op) THEN Raise
            ELSE IF ~InOPS(op) THEN Ret(FALSE)
            ELSE LET r == OPS(op.s, value, f[field.s])
                 IN IF r.exc THEN Ret(FALSE) ELSE r

\* Variant: the operator applied outside any try
evaluate_condition_NoTry(f, cond) ==
    IF cond.t # "list" THEN Raise
    ELSE IF Len(cond.l) # 3 THEN Ret(FALSE)
    ELSE LET field == cond.l[1]
             op == cond.l[2]
             value == cond.l[3]
         IN IF ~Hashable(field) THEN Raise
            ELSE IF ~InFacts(f, field) THEN Ret(FALSE)
            ELSE IF ~Hashable(op) THEN Raise
            ELSE IF ~InOPS(op) THEN Ret(FALSE)
            ELSE OPS(op.s, f[field.s], value)

\* evaluate_condition(facts, cond).  len(cond) raises on a value that has no
\* length; the two "in" tests hash their left operand, outside the try, and
\* the second is not reached when the first already decides.
evaluate_condition(f, cond) ==
    IF cond.t # "list" THEN Raise
    ELSE IF Len(cond.l) # 3 THEN Ret(FALSE)
    ELSE LET field == cond.l[1]
             op == cond.l[2]
             value == cond.l[3]
         IN IF ~Hashable(field) THEN Raise
            ELSE IF ~InFacts(f, field) THEN Ret(FALSE)
            ELSE IF ~Hashable(op) THEN Raise
            ELSE IF ~InOPS(op) THEN Ret(FALSE)
            ELSE LET r == OPS(op.s, f[field.s], value)
                 IN IF r.exc THEN Ret(FALSE) ELSE r

\* all(evaluate_condition(facts, c) for c in conds[k..]): stops at the first
\* false condition, and a condition that raises ends the call.
RECURSIVE AllFrom(_, _, _)
AllFrom(f, conds, k) ==
    IF k > Len(conds) THEN Ret(TRUE)
    ELSE LET r == evaluate_condition(f, conds[k])
         IN IF r.exc THEN Raise
            ELSE IF ~r.val THEN Ret(FALSE)
            ELSE AllFrom(f, conds, k + 1)

\* any(...) in place of all(...)
RECURSIVE AnyFrom(_, _, _)
AnyFrom(f, conds, k) ==
    IF k > Len(conds) THEN Ret(FALSE)
    ELSE LET r == evaluate_condition(f, conds[k])
         IN IF r.exc THEN Raise
            ELSE IF r.val THEN Ret(TRUE)
            ELSE AnyFrom(f, conds, k + 1)

\* Variant: one true condition is enough
rule_matches_Any(f, rule) ==
    LET conds == Get(rule, "conditions", List(<<>>))
    IN IF conds.t # "list" THEN Raise ELSE AnyFrom(f, conds.l, 1)

\* Variant: only the first condition is looked at
rule_matches_FirstOnly(f, rule) ==
    LET conds == Get(rule, "conditions", List(<<>>))
    IN IF conds.t # "list" THEN Raise
       ELSE IF Len(conds.l) = 0 THEN Ret(TRUE)
       ELSE evaluate_condition(f, conds.l[1])

\* rule_matches(facts, rule): iterating a value that is no list raises
rule_matches(f, rule) ==
    LET conds == Get(rule, "conditions", List(<<>>))
    IN IF conds.t # "list" THEN Raise ELSE AllFrom(f, conds.l, 1)

--------------------------------------------------------------------------
(* run_rules *)

NoRuleMatched == [decision |-> "REVIEW", reason |-> "No rule matched"]
NoAction == [decision |-> "REVIEW", reason |-> "No action"]

\* [r for r in rules if rule_matches(facts, r)], as the positions of the
\* rules kept (the list holds the rule objects of the input, so a position
\* is an object's identity); one rule that raises ends the call.
FiredOf(f, rs) ==
    IF \E i \in 1..Len(rs) : rule_matches(f, rs[i]).exc THEN Raise
    ELSE Ret(SelectSeq([i \in 1..Len(rs) |-> i],
                       LAMBDA i : rule_matches(f, rs[i]).val))

\* lambda r: r.get("priority", 0)
Key(rs, i) == Get(rs[i], "priority", Num(0))

\* sorted() raises when two keys cannot be ordered: to order n >= 2 keys it
\* compares every key with another one, and keys of the modelled types that
\* can be compared with a common key can be compared with each other.
SortRaises(rs, idx) ==
    /\ Len(idx) >= 2
    /\ \E i, j \in 1..Len(idx) :
          i # j /\ PyOrd("<", Key(rs, idx[i]), Key(rs, idx[j])).exc

\* Variant: a rule goes in front of the rules of equal key
InsertDesc_Unstable(rs, sorted, i) ==
    LET Less == {k \in 1..Len(sorted) :
                    PyOrd("<=", Key(rs, sorted[k]), Key(rs, i)).val}
        at == IF Less = {} THEN Len(sorted) + 1
              ELSE CHOOSE k \in Less : \A m \in Less : k <= m
    IN SubSeq(sorted, 1, at - 1) \o <<i>> \o SubSeq(sorted, at, Len(sorted))

\* One rule put into a list sorted by descending key, behind the rules whose
\* key is not smaller: equal keys stay in their order of arrival.
InsertDesc(rs, sorted, i) ==
    LET Less == {k \in 1..Len(sorted) :
                    PyOrd("<", Key(rs, sorted[k]), Key(rs, i)).val}
        at == IF Less = {} THEN Len(sorted) + 1
              ELSE CHOOSE k \in Less : \A m \in Less : k <= m
    IN SubSeq(sorted, 1, at - 1) \o <<i>> \o SubSeq(sorted, at, Len(sorted))

RECURSIVE SortPrefix(_, _, _)
SortPrefix(rs, idx, n) ==
    IF n = 0 THEN <<>>
    ELSE InsertDesc(rs, SortPrefix(rs, idx, n - 1), idx[n])

\* Variant: reverse=True left out, the sort ascends
SortedAsc(rs, idx) ==
    LET desc == SortPrefix(rs, idx, Len(idx))
    IN [k \in 1..Len(desc) |-> desc[Len(desc) + 1 - k]]

\* sorted(fired, key=lambda r: r.get("priority", 0), reverse=True): a stable
\* sort, also when reversed
SortedDesc(rs, idx) == SortPrefix(rs, idx, Len(idx))

\* Variant: the fallback of the empty fired set used for a missing action
SelectBest_WrongFallback(rule) ==
    Get(rule, "action", NoRuleMatched)

\* fired_sorted[0].get("action", {"decision": "REVIEW", "reason": "No action"})
SelectBest(rule) == Get(rule, "action", NoAction)

NoResult == [raised |-> FALSE, best |-> Null, fired_sorted |-> <<>>]
Raised == [raised |-> TRUE, best |-> Null, fired_sorted |-> <<>>]

\* line 106
Filter ==
    /\ pc = "start"
    /\ LET r == FiredOf(facts, rules)
       IN IF r.exc
          THEN /\ pc' = "done"
               /\ ret' = Raised
               /\ fired' = <<>>
          ELSE /\ pc' = "fired"
               /\ fired' = r.val
               /\ ret' = ret
    /\ UNCHANGED <<facts, rules>>

\* Variant: the fallback of a missing action returned for an empty fired set
ReturnNoMatch_WrongFallback ==
    /\ pc = "fired"
    /\ fired = <<>>
    /\ pc' = "done"
    /\ ret' = [raised |-> FALSE, best |-> NoAction, fired_sorted |-> <<>>]
    /\ UNCHANGED <<facts, rules, fired>>

\* lines 107-108
ReturnNoMatch ==
    /\ pc = "fired"
    /\ fired = <<>>
    /\ pc' = "done"
    /\ ret' = [raised |-> FALSE, best |-> NoRuleMatched, fired_sorted |-> <<>>]
    /\ UNCHANGED <<facts, rules, fired>>

\* Variant: the action taken from the first fired rule before the sort
SortAndSelect_BestOfUnsorted ==
    /\ pc = "fired"
    /\ fired # <<>>
    /\ pc' = "done"
    /\ IF SortRaises(rules, fired)
       THEN ret' = Raised
       ELSE ret' = [raised |-> FALSE,
                    best |-> SelectBest(rules[fired[1]]),
                    fired_sorted |-> SortedDesc(rules, fired)]
    /\ UNCHANGED <<facts, rules, fired>>

\* lines 110-112
SortAndSelect ==
    /\ pc = "fired"
    /\ fired # <<>>
    /\ pc' = "done"
    /\ IF SortRaises(rules, fired)
       THEN ret' = Raised
       ELSE LET fired_sorted == SortedDesc(rules, fired)
            IN ret' = [raised |-> FALSE,
                       best |-> SelectBest(rules[fired_sorted[1]]),
                       fired_sorted |-> fired_sorted]
    /\ UNCHANGED <<facts, rules, fired>>

Next == Filter \/ ReturnNoMatch \/ SortAndSelect

--------------------------------------------------------------------------
(* DEFAULT_RULES.  A CGPA is held in hundredths (3.7 is 370), the unit of *)
(* the form's input step; the other fields are whole numbers.  The dash  *)
(* in the name of the fourth rule is written as a hyphen.                 *)

Cond(field, op, value) == List(<<Str(field), Str(op), value>>)

DEFAULT_RULES ==
    << [name |-> "Top merit candidate",
        priority |-> Num(100),
        conditions |-> List(<< Cond("cgpa", ">=", Num(370)),
                               Cond("co_curricular_score", ">=", Num(80)),
                               Cond("family_income", "<=", Num(8000)),
                               Cond("disciplinary_actions", "==", Num(0)) >>),
        action |-> [decision |-> "AWARD_FULL",
                    reason |-> "Excellent academic & co-curricular performance, with acceptable need"]],
       [name |-> "Good candidate - partial scholarship",
        priority |-> Num(80),
        conditions |-> List(<< Cond("cgpa", ">=", Num(330)),
                               Cond("co_curricular_score", ">=", Num(60)),
                               Cond("family_income", "<=", Num(12000)),
                               Cond("disciplinary_actions", "<=", Num(1)) >>),
        action |-> [decision |-> "AWARD_PARTIAL",
                    reason |-> "Good academic & involvement record with moderate need"]],
       [name |-> "Need-based review",
        priority |-> Num(70),
        conditions |-> List(<< Cond("cgpa", ">=", Num(250)),
                               Cond("family_income", "<=", Num(4000)) >>),
        action |-> [decision |-> "REVIEW",
                    reason |-> "High need but borderline academic score"]],
       [name |-> "Low CGPA - not eligible",
        priority |-> Num(95),
        conditions |-> List(<< Cond("cgpa", "<", Num(250)) >>),
        action |-> [decision |-> "REJECT",
                    reason |-> "CGPA below minimum scholarship requirement"]],
       [name |-> "Serious disciplinary record",
        priority |-> Num(90),
        conditions |-> List(<< Cond("disciplinary_actions", ">=", Num(2)) >>),
        action |-> [decision |-> "REJECT",
                    reason |-> "Too many disciplinary records"]] >>

\* The facts the form builds (lines 140-145)
Applicant(cgpa, co, income, disciplinary) ==
    [cgpa |-> Num(cgpa),
     co_curricular_score |-> Num(co),
     family_income |-> Num(income),
     disciplinary_actions |-> Num(disciplinary)]

--------------------------------------------------------------------------
(* Inputs *)

MaxRules == 3
MaxConds == 2
MaxPriority == 1

Absent == [t |-> "absent"]

\* A rule dict with the keys that are given
MkRule(priority, conditions, action) ==
    [k \in (IF priority = Absent THEN {} ELSE {"priority"})
           \cup (IF conditions = Absent THEN {} ELSE {"conditions"})
           \cup (IF action = Absent THEN {} ELSE {"action"}) |->
        CASE k = "priority" -> priority
          [] k = "conditions" -> conditions
          [] k = "action" -> action]

SeqsUpTo(S, n) == UNION {[1..m -> S] : m \in 0..n}

ActA == [decision |-> "AWARD_FULL", reason |-> "a"]
ActB == [decision |-> "REJECT", reason |-> "b"]

\* Facts over one field: absent, or a number, a string or a list
FactValues == {Num(1), Num(2), Str("a"), List(<<Num(1)>>)}
GenFacts == UNION {[D -> FactValues] : D \in SUBSET {"x"}}

\* Every operator, registered or not, on a present and on an absent field,
\* against a value of every type; and conditions of the wrong length
AllOps == OpSymbols \cup {"~="}
CondValues == {Num(1), Str("a"), Str("ab"), List(<<Num(1), Str("a")>>), Null}
Triples == {Cond(f, op, v) : f \in {"x", "z"}, op \in AllOps, v \in CondValues}
WrongLength ==
    { List(<<>>), List(<<Str("x")>>), List(<<Str("x"), Str("==")>>),
      List(<<Str("x"), Str("=="), Num(1), Num(1)>>) }

\* one rule of one condition
InitOperators ==
    /\ facts \in GenFacts
    /\ \E c \in Triples \cup WrongLength :
          rules = <<MkRule(Num(1), List(<<c>>), ActA)>>

\* A true-or-false condition and one condition of each malformed kind
CoreConds ==
    { Cond("x", "==", Num(1)), Cond("x", ">=", Num(1)),
      List(<<Str("x"), Str("==")>>), Cond("z", "==", Num(1)),
      Cond("x", "~=", Num(1)), Cond("x", "<", Str("a")) }

\* a rule of several conditions, alone or followed by a catch-all rule
InitConditions ==
    /\ facts \in GenFacts
    /\ \E cs \in SeqsUpTo(CoreConds, MaxConds),
          tail \in {<<>>, <<MkRule(Num(0), List(<<>>), ActB)>>} :
          rules = <<MkRule(Num(1), List(cs), ActA)>> \o tail

\* Rules that differ in priority, action and whether they match x = 1
EngineRules ==
    { MkRule(p, c, a) :
        p \in {Absent} \cup {Num(n) : n \in 0..MaxPriority},
        c \in {Absent, List(<<Cond("x", "==", Num(2))>>)},
        a \in {Absent, ActA, ActB} }

InitEngine ==
    /\ facts = [x |-> Num(1)]
    /\ rules \in SeqsUpTo(EngineRules, MaxRules)

\* the default catalog against applicants around its thresholds
InitCatalog ==
    /\ rules = DEFAULT_RULES
    /\ \E cgpa \in {200, 270, 380, 390}, co \in {10, 50, 85, 90, 95},
          income \in {1000, 3000, 3500, 5000, 100000}, disciplinary \in {0, 3} :
          facts = Applicant(cgpa, co, income, disciplinary)

Init ==
    /\ pc = "start"
    /\ fired = <<>>
    /\ ret = NoResult
    /\ \/ InitOperators
       \/ InitConditions
       \/ InitEngine
       \/ InitCatalog

Spec == Init /\ [][Next]_vars

\* Rule content outside the data model: a priority that is no number,
\* conditions that are no list, a condition that is no list, a field or an
\* operator that is a list
MalformedRules ==
    { MkRule(p, c, a) :
        p \in {Absent, Num(1), Str("a"), Null},
        c \in { List(<<>>), Null, List(<<Num(5)>>),
                List(<<List(<<List(<<Str("x")>>), Str("=="), Num(1)>>)>>),
                List(<<List(<<Str("x"), List(<<Str("==")>>), Num(1)>>)>>),
                List(<<Cond("x", "==", Num(2)), Num(5)>>) },
        a \in {Absent, ActA} }

InitMalformed ==
    /\ facts \in {[k \in {} |-> Null], [x |-> Num(1)]}
    /\ \E r1 \in MalformedRules, tail \in {<<>>} \cup {<<r>> : r \in MalformedRules} :
          rules = <<r1>> \o tail

InitAny ==
    /\ pc = "start"
    /\ fired = <<>>
    /\ ret = NoResult
    /\ \/ InitOperators
       \/ InitConditions
       \/ InitEngine
       \/ InitCatalog
       \/ InitMalformed

SpecAny == InitAny /\ [][Next]_vars

--------------------------------------------------------------------------
(* What the properties speak of *)

Done == pc = "done"

\* the rules returned, as positions in the input, highest rank first
FiredRules == ret.fired_sorted
FiredSet == {FiredRules[k] : k \in 1..Len(FiredRules)}

Priority(i) == IF "priority" \in DOMAIN rules[i] THEN rules[i].priority.n ELSE 0
HasAction(i) == "action" \in DOMAIN rules[i]
Conditions(i) ==
    IF "conditions" \in DOMAIN rules[i] THEN rules[i].conditions.l ELSE <<>>

\* a condition evaluates to true against the facts
Holds(c) == evaluate_condition(facts, c) = Ret(TRUE)

\* every condition of rule i evaluates to true
Satisfied(i) == \A k \in 1..Len(Conditions(i)) : Holds(Conditions(i)[k])
Matching == {i \in 1..Len(rules) : Satisfied(i)}

SortedStable(fs) ==
    \A a, b \in 1..Len(fs) :
        a < b => /\ Priority(fs[a]) >= Priority(fs[b])
                 /\ Priority(fs[a]) = Priority(fs[b]) => fs[a] < fs[b]

\* the malformed conditions of the data model: field and operator are strings
WrongArity(c) == Len(c.l) # 3
UnknownField(c) == Len(c.l) = 3 /\ c.l[1].s \notin DOMAIN facts
UnknownOp(c) == Len(c.l) = 3 /\ c.l[2].s \notin OpSymbols
TypeClash(op, a, b) ==
    \/ op \in {"<", "<=", ">", ">="} /\ (a.t # b.t \/ a.t = "null")
    \/ op \in {"in", "not_in"} /\ (b.t \in {"num", "null"} \/ (b.t = "str" /\ a.t # "str"))
Incompatible(c) ==
    /\ Len(c.l) = 3
    /\ c.l[1].s \in DOMAIN facts
    /\ c.l[2].s \in OpSymbols
    /\ TypeClash(c.l[2].s, facts[c.l[1].s], c.l[3])
Malformed(c) == WrongArity(c) \/ UnknownField(c) \/ UnknownOp(c) \/ Incompatible(c)

Scenario1 == Applicant(380, 85, 5000, 0)
Scenario2 == Applicant(200, 50, 3000, 0)
Scenario3 == Applicant(390, 90, 1000, 3)
Scenario4 == Applicant(270, 10, 3500, 0)
Scenario5 == Applicant(390, 95, 100000, 0)

FiredNames == [k \in 1..Len(FiredRules) |-> rules[FiredRules[k]].name]

--------------------------------------------------------------------------
(* Properties *)

\* C1: run_rules never raises, whatever the facts and the rules, rules with
\* malformed or missing conditions, priority or action included.
C1_NeverRaises == Done => ~ret.raised

\* C2: the fired rules are returned by descending priority, and fired rules
\* of equal priority keep their order in the input rule list.
C2_SortedStable == Done => SortedStable(FiredRules)

C2_Witness ==
    /\ Done
    /\ \E a, b \in 1..Len(FiredRules) :
          a < b /\ Priority(FiredRules[a]) = Priority(FiredRules[b])
    /\ \E a, b \in 1..Len(FiredRules) :
          a < b /\ FiredRules[a] > FiredRules[b]

\* C3, as stated: whenever a rule fired, the selected action is the action
\* of the first fired rule.
C3_Original ==
    Done /\ FiredRules # <<>> =>
        /\ HasAction(FiredRules[1])
        /\ ret.best = rules[FiredRules[1]].action

\* C3, amended: whenever a rule fired and the first fired rule has an
\* action, the selected action is that action.
C3_SelectedIsFirstAction ==
    Done /\ FiredRules # <<>> /\ HasAction(FiredRules[1]) =>
        ret.best = rules[FiredRules[1]].action

C3_Witness ==
    /\ Done
    /\ Len(FiredRules) >= 2
    /\ HasAction(FiredRules[1])
    /\ HasAction(FiredRules[2])
    /\ rules[FiredRules[1]].action # rules[FiredRules[2]].action
    /\ FiredRules[1] > FiredRules[2]

\* C4: when no rule has all its conditions satisfied (the empty rule list
\* included), the result is REVIEW / "No rule matched" with no fired rules.
C4_NoMatchDefault ==
    Done /\ Matching = {} =>
        /\ ~ret.raised
        /\ ret.best = [decision |-> "REVIEW", reason |-> "No rule matched"]
        /\ FiredRules = <<>>

C4_Witness == Done /\ Len(rules) >= 2 /\ Matching = {}

\* C5: a malformed condition (wrong number of components, absent field,
\* unregistered operator, operands the operator cannot compare) evaluates to
\* false, its rule does not fire, nothing is raised, and the rules whose
\* conditions all hold still fire.
C5_MalformedIsFalse ==
    Done =>
        /\ ~ret.raised
        /\ \A i \in 1..Len(rules) : \A k \in 1..Len(Conditions(i)) :
              Malformed(Conditions(i)[k]) =>
                  /\ evaluate_condition(facts, Conditions(i)[k]) = Ret(FALSE)
                  /\ i \notin FiredSet
        /\ \A i \in Matching : i \in FiredSet

C5_Witness ==
    /\ Done
    /\ Len(rules) = 2
    /\ Len(Conditions(1)) = 2
    /\ Incompatible(Conditions(1)[1])
    /\ Holds(Conditions(1)[2])
    /\ 2 \in FiredSet

\* C6: the five example applicants get the stated decisions from the
\* default catalog.
C6_Scenarios ==
    Done /\ rules = DEFAULT_RULES =>
        /\ facts = Scenario1 => ret.best.decision = "AWARD_FULL"
        /\ facts = Scenario2 =>
              ret.best = [decision |-> "REJECT",
                          reason |-> "CGPA below minimum scholarship requirement"]
        /\ facts = Scenario3 =>
              ret.best = [decision |-> "REJECT",
                          reason |-> "Too many disciplinary records"]
        /\ facts = Scenario4 =>
              ret.best = [decision |-> "REVIEW",
                          reason |-> "High need but borderline academic score"]
        /\ facts = Scenario5 =>
              ret.best = [decision |-> "REVIEW", reason |-> "No rule matched"]

C6_Witness ==
    /\ Done
    /\ rules = DEFAULT_RULES
    /\ facts = Scenario3
    /\ Len(FiredRules) = 2

\* C7, as stated: in scenario 2 the low-CGPA rule and the need-based rule
\* both fire, in scenario 3 only the disciplinary rule fires, in scenario 4
\* only the need-based rule fires.
C7_Original ==
    Done /\ rules = DEFAULT_RULES =>
        /\ facts = Scenario2 =>
              FiredNames = <<"Low CGPA - not eligible", "Need-based review">>
        /\ facts = Scenario3 => FiredNames = <<"Serious disciplinary record">>
        /\ facts = Scenario4 => FiredNames = <<"Need-based review">>

\* C7, amended: in scenario 2 only the low-CGPA rule fires, in scenario 3
\* the disciplinary rule and then the need-based rule fire, in scenario 4
\* only the need-based rule fires.
C7_FiredInScenarios ==
    Done /\ rules = DEFAULT_RULES =>
        /\ facts = Scenario2 => FiredNames = <<"Low CGPA - not eligible">>
        /\ facts = Scenario3 =>
              FiredNames = <<"Serious disciplinary record", "Need-based review">>
        /\ facts = Scenario4 => FiredNames = <<"Need-based review">>

C7_Witness ==
    /\ Done
    /\ rules = DEFAULT_RULES
    /\ facts = Scenario2
    /\ Len(FiredRules) = 1

\* C8: a rule with an empty conditions list matches whatever the facts, and
\* is among the fired rules.
C8_EmptyConditionsMatch ==
    \A i \in 1..Len(rules) :
        Conditions(i) = <<>> =>
            /\ \A f \in GenFacts \cup {facts} : rule_matches(f, rules[i]) = Ret(TRUE)
            /\ Done => i \in FiredSet

C8_Witness ==
    /\ Done
    /\ DOMAIN facts = {}
    /\ \E i \in FiredSet :
          "conditions" \in DOMAIN rules[i] /\ rules[i].conditions = List(<<>>)
    /\ \E j \in 1..Len(rules) : j \notin FiredSet

\* C9: when the first fired rule has no action, the selected action is
\* REVIEW / "No action", nothing is raised, and the fired rules are still
\* all the matching rules, sorted.
C9_NoActionFallback ==
    Done /\ FiredRules # <<>> /\ ~HasAction(FiredRules[1]) =>
        /\ ~ret.raised
        /\ ret.best = [decision |-> "REVIEW", reason |-> "No action"]
        /\ FiredSet = Matching
        /\ SortedStable(FiredRules)

C9_Witness ==
    /\ Done
    /\ Len(FiredRules) >= 2
    /\ ~HasAction(FiredRules[1])
    /\ HasAction(FiredRules[2])

\* C10: the fired rules are exactly the input rules all of whose conditions
\* evaluate to true, each once.
C10_FiredIsMatching ==
    Done =>
        /\ FiredSet = Matching
        /\ Cardinality(FiredSet) = Len(FiredRules)

C10_Witness ==
    /\ Done
    /\ \E i \in FiredSet : Len(Conditions(i)) >= 2
    /\ \E j \in 1..Len(rules) :
          /\ j \notin FiredSet
          /\ \E k \in 1..Len(Conditions(j)) : Holds(Conditions(j)[k])

====
